---- MODULE Spec2Model ----
(***************************************************************************)
(* Model of multiple_lights.cpp: the procedural "kinetic sculpture" mesh   *)
(* generator makeSculpture and the per-frame render loop of main.          *)
(*                                                                         *)
(* Numbers.  Floats are modelled as exact rationals n/d, plus the IEEE     *)
(* specials NaN and Inf that a float division by zero produces.            *)
(* Lengths of light positions are in tenths (1.8 is 18).  A value          *)
(* a + b*sqrt(3) is the pair <<a, b>>.  Time is counted in ticks of        *)
(* (pi/6)/0.7 seconds, so that the light angle g_time*0.7 is a whole       *)
(* number of twelfths of a turn and sin/cos are exact.                     *)
(***************************************************************************)
EXTENDS Integers, Sequences, FiniteSets, TLC

VARIABLES
    pc,           \* position of the program
    clock,        \* the time source, glfwGetTime(), in ticks
    g_time,       \* static float g_time
    args,         \* arguments of the last makeSculpture call
    sculpture,    \* the Mesh returned by makeSculpture (or the exception)
    vboData,      \* contents of the GL_ARRAY_BUFFER of the sculpture
    eboData,      \* contents of the GL_ELEMENT_ARRAY_BUFFER of the sculpture
    shouldClose,  \* glfwWindowShouldClose(win)
    fb,           \* framebuffer size [w, h] queried this frame
    proj,         \* aspect ratio the projection matrix was built with
    view,         \* the view matrix of this frame (its camera time)
    pointLights,  \* static glm::vec3 pointLights[4]
    uniforms,     \* uniforms of the sculpture program
    markers,      \* translations the light cubes were drawn with
    drawn,        \* what the last sculpture draw call rasterised
    i,            \* loop counter of the per-light loops
    log           \* operations of the current loop iteration, in order

vars == <<pc, clock, g_time, args, sculpture, vboData, eboData, shouldClose,
          fb, proj, view, pointLights, uniforms, markers, drawn, i, log>>

meshVars == <<args, sculpture, vboData, eboData>>
frameVars == <<shouldClose, fb, proj, view, pointLights, uniforms, markers,
               drawn, i, log>>

----------------------------------------------------------------------------
(* Bounds of the model *)

MaxRings == 4
MaxSegs == 5
MaxTime == 4
MaxDim == 1

(* Program constants *)

NumLights == 4
QuarterTurn == 3
FullTurn == 12
LightRadius == 18
VertexFloats == 8

----------------------------------------------------------------------------
(* Float arithmetic *)

FNum(n, d) == [k |-> "num", n |-> n, d |-> d]
NaN == [k |-> "nan", n |-> 0, d |-> 1]
Inf == [k |-> "inf", n |-> 1, d |-> 1]
Unset == [k |-> "unset", n |-> 0, d |-> 1]

\* (float)a / b for ints a >= 0, b >= 0 : IEEE division
FDiv(a, b) ==
    IF b # 0 THEN FNum(a, b)
    ELSE IF a = 0 THEN NaN ELSE Inf

FIsNum(x) == x.k = "num"
FLess(x, y) == FIsNum(x) /\ FIsNum(y) /\ x.n * y.d < y.n * x.d
FLeq(x, y) == FIsNum(x) /\ FIsNum(y) /\ x.n * y.d <= y.n * x.d
FEq(x, y) == FIsNum(x) /\ FIsNum(y) /\ x.n * y.d = y.n * x.d
FZero == FNum(0, 1)
FOne == FNum(1, 1)

----------------------------------------------------------------------------
(* makeSculpture: the parametric "revolve + wave" mesh *)

\* auto toIndex = [colSegments](int r, int c)
toIndexNoWrap(colSegments, r, c) == r * colSegments + c
toIndex(colSegments, r, c) ==
    LET C == (c + colSegments) % colSegments
    IN  r * colSegments + C

\* float vParam = (float)r / (rowRings - 1)
vParamOverRings(rowRings, r) == FDiv(r, rowRings)
vParamOf(rowRings, r) == FDiv(r, rowRings - 1)

\* float uParam = (float)c / colSegments
uParamOf(colSegments, c) == FDiv(c, colSegments)

\* float y = (vParam - 0.5f) * 3.0f
Height(vParam) ==
    IF FIsNum(vParam) THEN FNum(3 * (2 * vParam.n - vParam.d), 2 * vParam.d)
    ELSE NaN

\* float wave = 0.25f * sin(6 u 2pi - 4 v 2pi + g_time * 1.5f): a value in
\* [-0.25, 0.25] whose phase carries the time it was sampled at, or NaN
Wave(uParam, vParam, t) ==
    IF FIsNum(uParam) /\ FIsNum(vParam) THEN [k |-> "wave", t |-> t]
    ELSE [k |-> "nan", t |-> t]

\* float radius = r0 * (1.0f + wave).  r0 = sqrt(cx^2 + cz^2) is positive for
\* every theta (cx = 0 only where |sin theta| = 1, and then |cz| = b = 0.5),
\* and 1 + wave >= 0.75, so the radius is positive unless the wave is NaN.
Radius(wave) == IF wave.k = "wave" THEN "pos" ELSE "nan"

\* glm::cross(tTheta, tY) = (-radius cos theta, 0, -radius sin theta):
\* its length is |radius|
CrossLength(radius) == radius

\* glm::normalize(v) = v * inversesqrt(dot(v, v)), with no test of the
\* length: a zero vector gives 0 * inf = NaN
glmNormalize(len) == IF len = "pos" THEN "unit" ELSE "nan"

\* one iteration of the inner vertex loop: the 8 floats pushed onto v
Sample(rowRings, colSegments, r, c, t) ==
    LET vParam == vParamOf(rowRings, r)
        uParam == uParamOf(colSegments, c)
        wave == Wave(uParam, vParam, t)
        radius == Radius(wave)
    IN  [y |-> Height(vParam),
         radius |-> radius,
         t |-> wave.t,
         nrm |-> glmNormalize(CrossLength(radius)),
         uParam |-> uParam, vParam |-> vParam]

RECURSIVE VertexLoop(_, _, _, _, _, _)
VertexLoop(rowRings, colSegments, t, r, c, v) ==
    IF r >= rowRings THEN v
    ELSE IF c >= colSegments
         THEN VertexLoop(rowRings, colSegments, t, r + 1, 0, v)
         ELSE VertexLoop(rowRings, colSegments, t, r, c + 1,
                         Append(v, Sample(rowRings, colSegments, r, c, t)))

\* idx.insert(idx.end(), { i0,i2,i1,  i1,i2,i3 })
QuadRepeated(colSegments, r, c) ==
    LET i0 == toIndex(colSegments, r, c)
        i1 == toIndex(colSegments, r, c + 1)
        i2 == toIndex(colSegments, r + 1, c)
    IN  <<i0, i2, i1, i1, i2, i2>>
Quad(colSegments, r, c) ==
    LET i0 == toIndex(colSegments, r, c)
        i1 == toIndex(colSegments, r, c + 1)
        i2 == toIndex(colSegments, r + 1, c)
        i3 == toIndex(colSegments, r + 1, c + 1)
    IN  <<i0, i2, i1, i1, i2, i3>>

RECURSIVE IndexLoop(_, _, _, _, _)
IndexLoop(rowRings, colSegments, r, c, idx) ==
    IF r >= rowRings - 1 THEN idx
    ELSE IF c >= colSegments
         THEN IndexLoop(rowRings, colSegments, r + 1, 0, idx)
         ELSE IndexLoop(rowRings, colSegments, r, c + 1,
                        idx \o Quad(colSegments, r, c))

\* std::vector::reserve(n) with an int n: a negative n converts to a size_t
\* above max_size() and reserve throws std::length_error
ReserveThrows(n) == n < 0

NoMesh == [kind |-> "none", vao |-> 0, vbo |-> 0, ebo |-> 0, indexCount |-> 0]

\* Mesh makeSculpture(int rowRings, int colSegments), reading g_time = t
makeSculpture(rowRings, colSegments, t) ==
    IF \/ ReserveThrows(rowRings * colSegments * VertexFloats)
       \/ ReserveThrows((rowRings - 1) * colSegments * 6)
    THEN [m |-> [NoMesh EXCEPT !.kind = "length_error"],
          v |-> <<>>, idx |-> <<>>, uploaded |-> FALSE]
    ELSE LET v == VertexLoop(rowRings, colSegments, t, 0, 0, <<>>)
             idx == IndexLoop(rowRings, colSegments, 0, 0, <<>>)
         IN  [m |-> [kind |-> "mesh", vao |-> 1, vbo |-> 1, ebo |-> 1,
                     indexCount |-> Len(idx)],
              v |-> v, idx |-> idx, uploaded |-> TRUE]

----------------------------------------------------------------------------
(* Light animation and camera *)

\* values a + b*sqrt(3) as pairs <<a, b>>
PairAdd(p, q) == <<p[1] + q[1], p[2] + q[2]>>
PairNeg(p) == <<-p[1], -p[2]>>
PairSq(p) == <<p[1] * p[1] + 3 * p[2] * p[2], 2 * p[1] * p[2]>>

\* 2*sin and 2*cos of a twelfths of a turn
Sin2(a) ==
    LET m == a % FullTurn
    IN  CASE m \in {0, 6} -> <<0, 0>>
          [] m \in {1, 5} -> <<1, 0>>
          [] m \in {2, 4} -> <<0, 1>>
          [] m = 3 -> <<2, 0>>
          [] m \in {7, 11} -> <<-1, 0>>
          [] m \in {8, 10} -> <<0, -1>>
          [] m = 9 -> <<-2, 0>>
Cos2(a) ==
    LET m == a % FullTurn
    IN  CASE m \in {3, 9} -> <<0, 0>>
          [] m \in {2, 10} -> <<1, 0>>
          [] m \in {1, 11} -> <<0, 1>>
          [] m = 0 -> <<2, 0>>
          [] m \in {4, 8} -> <<-1, 0>>
          [] m \in {5, 7} -> <<0, -1>>
          [] m = 6 -> <<-2, 0>>

\* R * (s / 2) for an even R
Scale(R, s) == <<(R \div 2) * s[1], (R \div 2) * s[2]>>

\* float phase = i * glm::half_pi<float>()
PhaseSixth(n) == n * 2
Phase(n) == n * QuarterTurn

\* body of the "animate lights gently" loop for light n at g_time = t;
\* y = 1.0 + 0.4 sin(1.3 t + n) is kept as the expression's arguments
Animate(n, t) ==
    [x |-> Scale(LightRadius, Sin2(t + Phase(n))),
     y |-> [k |-> "wave", c |-> 10, t |-> t, n |-> n],
     z |-> Scale(LightRadius, Cos2(t + Phase(n)))]

StaticPos(x, y, z) ==
    [x |-> <<x, 0>>, y |-> [k |-> "const", c |-> y, t |-> 0, n |-> 0],
     z |-> <<z, 0>>]

\* static glm::vec3 pointLights[4] = { ... }
InitialPointLights ==
    [n \in 0 .. NumLights - 1 |->
        CASE n = 0 -> StaticPos(15, 12, 15)
          [] n = 1 -> StaticPos(-18, 10, 12)
          [] n = 2 -> StaticPos(16, 15, -16)
          [] n = 3 -> StaticPos(-14, 14, -13)]

NoPos == StaticPos(0, 0, 0)

\* glm::mat4 makeView(): the orbit camera at angle g_time * 0.3
makeViewAtClock == [set |-> TRUE, t |-> clock]
makeView == [set |-> TRUE, t |-> g_time]

NoView == [set |-> FALSE, t |-> 0]

\* w > 0 ? (float)w / h : 1.0f
Aspect(w, h) == IF w > 0 THEN FDiv(w, h) ELSE FOne

NoUniforms ==
    [uProj |-> Unset, uView |-> NoView, uModel |-> NoView, uViewPos |-> NoView,
     lights |-> [n \in 0 .. NumLights - 1 |-> NoPos]]

NoDraw == [done |-> FALSE, vertices |-> <<>>, count |-> 0, t |-> 0]

----------------------------------------------------------------------------
(* Calls of makeSculpture *)

GridArgs(rr, cs) == [rowRings |-> rr, colSegments |-> cs]

\* the call with the current arguments: the Mesh returned and the data
\* handed to glBufferData, or the exception leaving the function
CallMakeSculpture(returnTo, throwTo) ==
    LET res == makeSculpture(args.rowRings, args.colSegments, g_time)
    IN  /\ sculpture' = res.m
        /\ vboData' = [uploaded |-> res.uploaded, data |-> res.v]
        /\ eboData' = [uploaded |-> res.uploaded, data |-> res.idx]
        /\ pc' = IF res.m.kind = "mesh" THEN returnTo ELSE throwTo

NoBuffer == [uploaded |-> FALSE, data |-> <<>>]

FrameInit ==
    /\ shouldClose = FALSE
    /\ fb = [w |-> 0, h |-> 0]
    /\ proj = Unset
    /\ view = NoView
    /\ pointLights = InitialPointLights
    /\ uniforms = NoUniforms
    /\ markers = [n \in 0 .. NumLights - 1 |-> NoPos]
    /\ drawn = NoDraw
    /\ i = 0
    /\ log = <<>>

\* makeSculpture called with any arguments and any value of g_time
InitMesh ==
    /\ pc = "call"
    /\ clock = 0
    /\ g_time \in 0 .. MaxTime
    /\ args \in {GridArgs(rr, cs) : rr \in 0 .. MaxRings, cs \in 0 .. MaxSegs}
    /\ sculpture = NoMesh
    /\ vboData = NoBuffer
    /\ eboData = NoBuffer
    /\ FrameInit

MeshCall ==
    /\ pc = "call"
    /\ CallMakeSculpture("returned", "thrown")
    /\ UNCHANGED <<clock, g_time, args>>
    /\ UNCHANGED frameVars

\* the caller calls again, with other arguments at another time
MeshNextCall ==
    /\ pc \in {"returned", "thrown"}
    /\ pc' = "call"
    /\ g_time' \in 0 .. MaxTime
    /\ args' \in {GridArgs(rr, cs) : rr \in 0 .. MaxRings, cs \in 0 .. MaxSegs}
    /\ sculpture' = NoMesh
    /\ vboData' = NoBuffer
    /\ eboData' = NoBuffer
    /\ UNCHANGED clock
    /\ UNCHANGED frameVars

NextMesh == MeshCall \/ MeshNextCall

SpecMesh == InitMesh /\ [][NextMesh]_vars

----------------------------------------------------------------------------
(* main *)

\* state at entry of main; makeSculpture() is called with its default
\* arguments (140, 180), scaled here to the largest grid of the model
Init ==
    /\ pc = "main"
    /\ clock = 0
    /\ g_time = 0
    /\ args = GridArgs(MaxRings, MaxSegs)
    /\ sculpture = NoMesh
    /\ vboData = NoBuffer
    /\ eboData = NoBuffer
    /\ FrameInit

\* Mesh sculpture = makeSculpture();
MainMakeSculpture ==
    /\ pc = "main"
    /\ CallMakeSculpture("loop", "done")
    /\ UNCHANGED <<clock, g_time, args>>
    /\ UNCHANGED frameVars

\* the time source advances on its own, monotonically
Tick ==
    /\ pc # "done"
    /\ clock < MaxTime
    /\ clock' = clock + 1
    /\ UNCHANGED <<pc, g_time>>
    /\ UNCHANGED meshVars
    /\ UNCHANGED frameVars

\* while (!glfwWindowShouldClose(win)) { g_time = glfwGetTime();
\* glfwPollEvents(); glfwGetFramebufferSize; glViewport; glClear
BeginFrame ==
    /\ pc = "loop"
    /\ ~shouldClose
    /\ g_time' = clock
    /\ \E close \in BOOLEAN : shouldClose' = close
    /\ \E w \in 0 .. MaxDim, h \in 0 .. MaxDim : fb' = [w |-> w, h |-> h]
    /\ log' = <<"time">>
    /\ pc' = "camera"
    /\ UNCHANGED <<clock, proj, view, pointLights, uniforms, markers, drawn, i>>
    /\ UNCHANGED meshVars

\* glm::mat4 proj = glm::perspective(...); glm::mat4 view = makeView();
BuildCamera ==
    /\ pc = "camera"
    /\ proj' = Aspect(fb.w, fb.h)
    /\ view' = makeView
    /\ log' = Append(log, "camera")
    /\ i' = 0
    /\ pc' = "animate"
    /\ UNCHANGED <<clock, g_time, shouldClose, fb, pointLights, uniforms,
                   markers, drawn>>
    /\ UNCHANGED meshVars

\* one iteration of for (int i = 0; i < 4; ++i) { pointLights[i] = ... }
AnimateLight ==
    /\ pc = "animate"
    /\ i < NumLights
    /\ pointLights' = [pointLights EXCEPT ![i] = Animate(i, g_time)]
    /\ log' = Append(log, "animate")
    /\ i' = i + 1
    /\ pc' = IF i + 1 < NumLights THEN "animate" ELSE "upload"
    /\ UNCHANGED <<clock, g_time, shouldClose, fb, proj, view, uniforms,
                   markers, drawn>>
    /\ UNCHANGED meshVars

\* glUseProgram(prog); uProj, uView, uModel, material, uViewPos, dirLight
UploadFrame ==
    /\ pc = "upload"
    /\ uniforms' = [uniforms EXCEPT !.uProj = proj, !.uView = view,
                                    !.uModel = [set |-> TRUE, t |-> g_time],
                                    !.uViewPos = view]
    /\ log' = Append(log, "upload")
    /\ i' = 0
    /\ pc' = "uploadLights"
    /\ UNCHANGED <<clock, g_time, shouldClose, fb, proj, view, pointLights,
                   markers, drawn>>
    /\ UNCHANGED meshVars

\* one iteration of the "4 point lights" uniform loop
UploadLight ==
    /\ pc = "uploadLights"
    /\ i < NumLights
    /\ uniforms' = [uniforms EXCEPT !.lights[i] = pointLights[i]]
    /\ log' = Append(log, "uploadLight")
    /\ i' = i + 1
    /\ pc' = IF i + 1 < NumLights THEN "uploadLights" ELSE "drawSculpture"
    /\ UNCHANGED <<clock, g_time, shouldClose, fb, proj, view, pointLights,
                   markers, drawn>>
    /\ UNCHANGED meshVars

\* glBindVertexArray(sculpture.vao); glDrawElements(..., sculpture.indexCount)
DrawSculpture ==
    /\ pc = "drawSculpture"
    /\ drawn' = [done |-> TRUE, vertices |-> vboData.data,
                 count |-> sculpture.indexCount, t |-> g_time]
    /\ log' = Append(log, "drawSculpture")
    /\ i' = 0
    /\ pc' = "drawCubes"
    /\ UNCHANGED <<clock, g_time, shouldClose, fb, proj, view, pointLights,
                   uniforms, markers>>
    /\ UNCHANGED meshVars

\* one iteration of the light cube loop: translate by pointLights[i], draw
DrawCube ==
    /\ pc = "drawCubes"
    /\ i < NumLights
    /\ markers' = [markers EXCEPT ![i] = pointLights[i]]
    /\ log' = Append(log, "drawCube")
    /\ i' = i + 1
    /\ pc' = IF i + 1 < NumLights THEN "drawCubes" ELSE "swap"
    /\ UNCHANGED <<clock, g_time, shouldClose, fb, proj, view, pointLights,
                   uniforms, drawn>>
    /\ UNCHANGED meshVars

\* glfwSwapBuffers(win); if (ESC pressed) glfwSetWindowShouldClose(win, 1);
SwapBuffers ==
    /\ pc = "swap"
    /\ \E esc \in BOOLEAN : shouldClose' = (shouldClose \/ esc)
    /\ log' = Append(log, "swap")
    /\ pc' = "loop"
    /\ UNCHANGED <<clock, g_time, fb, proj, view, pointLights, uniforms,
                   markers, drawn, i>>
    /\ UNCHANGED meshVars

\* glfwDestroyWindow(win); glfwTerminate(); return 0;
Exit ==
    /\ pc = "loop"
    /\ shouldClose
    /\ pc' = "done"
    /\ UNCHANGED <<clock, g_time>>
    /\ UNCHANGED meshVars
    /\ UNCHANGED frameVars

Next ==
    \/ MainMakeSculpture
    \/ Tick
    \/ BeginFrame
    \/ BuildCamera
    \/ AnimateLight
    \/ UploadFrame
    \/ UploadLight
    \/ DrawSculpture
    \/ DrawCube
    \/ SwapBuffers
    \/ Exit

Spec == Init /\ [][Next]_vars

----------------------------------------------------------------------------
(* Properties of makeSculpture, checked under SpecMesh *)

Returned == pc = "returned"
ValidGrid == args.rowRings >= 2 /\ args.colSegments >= 3
RingOf(k) == (k - 1) \div args.colSegments
SegOf(k) == (k - 1) % args.colSegments

\* C1: for ringCount >= 2 and segmentCount >= 3 the index list has exactly
\* (ringCount-1)*segmentCount*6 entries, Mesh.indexCount is that number, and
\* every entry is >= 0 and < ringCount*segmentCount.
C1_IndexCountAndRange ==
    (Returned /\ ValidGrid) =>
        /\ Len(eboData.data) = (args.rowRings - 1) * args.colSegments * 6
        /\ sculpture.indexCount = (args.rowRings - 1) * args.colSegments * 6
        /\ \A k \in 1 .. Len(eboData.data) :
              /\ eboData.data[k] >= 0
              /\ eboData.data[k] < args.rowRings * args.colSegments

C1_Witness ==
    /\ Returned
    /\ args = GridArgs(3, 4)
    /\ sculpture.indexCount = 48

\* C2: the seam is stitched: toIndex(r, segmentCount) = toIndex(r, 0) for
\* every ring r, the quads of the last segment column reference the
\* segment-0 samples of rings r and r+1, and exactly ringCount*segmentCount
\* samples are generated.
C2_SeamStitched ==
    (Returned /\ ValidGrid) =>
        LET cs == args.colSegments
            rr == args.rowRings
        IN  /\ \A r \in 0 .. rr - 1 : toIndex(cs, r, cs) = toIndex(cs, r, 0)
            /\ \A r \in 0 .. rr - 2 :
                  LET base == (r * cs + cs - 1) * 6
                  IN  /\ eboData.data[base + 3] = r * cs
                      /\ eboData.data[base + 4] = r * cs
                      /\ eboData.data[base + 6] = (r + 1) * cs
            /\ Len(vboData.data) = rr * cs

C2_Witness ==
    /\ Returned
    /\ args = GridArgs(2, 3)
    /\ Len(vboData.data) = 6
    /\ eboData.data[15] = 0
    /\ eboData.data[18] = 3

\* C3: with degenerate grid dimensions (ringCount < 2 or segmentCount < 3)
\* makeSculpture fails fast with an explicit "invalid grid dimensions"
\* condition: no buffer is produced or uploaded and no usable Mesh returned.
C3_FailsFastOnDegenerateGrid ==
    (pc \in {"returned", "thrown"} /\ ~ValidGrid) =>
        /\ sculpture.kind = "invalid grid dimensions"
        /\ ~vboData.uploaded
        /\ ~eboData.uploaded

\* C6 as stated: both texture coordinates of every sample of a valid grid
\* lie in [0, 1), the last ring included.
C6_TexcoordsHalfOpen ==
    (Returned /\ ValidGrid) =>
        \A k \in 1 .. Len(vboData.data) :
            /\ FLeq(FZero, vboData.data[k].uParam)
            /\ FLess(vboData.data[k].uParam, FOne)
            /\ FLeq(FZero, vboData.data[k].vParam)
            /\ FLess(vboData.data[k].vParam, FOne)

\* C6 amended: for a valid grid u = c/segmentCount lies in [0, 1) and
\* v = r/(ringCount-1) lies in [0, 1], with v = 1 exactly on the last ring.
C6_TexcoordsLastRingOne ==
    (Returned /\ ValidGrid) =>
        \A k \in 1 .. Len(vboData.data) :
            /\ FEq(vboData.data[k].uParam, FNum(SegOf(k), args.colSegments))
            /\ FLeq(FZero, vboData.data[k].uParam)
            /\ FLess(vboData.data[k].uParam, FOne)
            /\ FEq(vboData.data[k].vParam,
                   FNum(RingOf(k), args.rowRings - 1))
            /\ FLeq(FZero, vboData.data[k].vParam)
            /\ FLeq(vboData.data[k].vParam, FOne)
            /\ FEq(vboData.data[k].vParam, FOne)
                  <=> (RingOf(k) = args.rowRings - 1)

C6_Witness ==
    /\ Returned
    /\ ValidGrid
    /\ args.rowRings = 3
    /\ \E k \in 1 .. Len(vboData.data) :
          /\ RingOf(k) = 2
          /\ FEq(vboData.data[k].vParam, FOne)
    /\ \E k \in 1 .. Len(vboData.data) :
          /\ RingOf(k) = 1
          /\ FEq(vboData.data[k].vParam, FNum(1, 2))

\* C8: the sampler never normalizes a zero-length (or otherwise unusable)
\* cross product but substitutes a fallback unit vector, so every normal
\* written to the vertex data is a well-defined unit vector for every input.
C8_NormalsAlwaysUnit ==
    Returned =>
        \A k \in 1 .. Len(vboData.data) : vboData.data[k].nrm = "unit"

\* C10: each quad (r, c) contributes exactly the triangles (i0,i2,i1) and
\* (i1,i2,i3) in that order, each triangle has three pairwise distinct
\* indices (also at the seam), and every sample index is referenced.
C10_TwoProperTrianglesPerQuad ==
    (Returned /\ ValidGrid) =>
        LET cs == args.colSegments
            rr == args.rowRings
            idx == eboData.data
        IN  /\ Len(idx) = 6 * (rr - 1) * cs
            /\ \A r \in 0 .. rr - 2 : \A c \in 0 .. cs - 1 :
                  LET base == (r * cs + c) * 6
                      c1 == IF c + 1 = cs THEN 0 ELSE c + 1
                      i0 == r * cs + c
                      i1 == r * cs + c1
                      i2 == (r + 1) * cs + c
                      i3 == (r + 1) * cs + c1
                  IN  /\ SubSeq(idx, base + 1, base + 6)
                            = <<i0, i2, i1, i1, i2, i3>>
            /\ \A q \in 0 .. (Len(idx) \div 3) - 1 :
                  /\ idx[3 * q + 1] # idx[3 * q + 2]
                  /\ idx[3 * q + 1] # idx[3 * q + 3]
                  /\ idx[3 * q + 2] # idx[3 * q + 3]
            /\ \A s \in 0 .. rr * cs - 1 :
                  \E k \in 1 .. Len(idx) : idx[k] = s

C10_Witness ==
    /\ Returned
    /\ args = GridArgs(3, 3)
    /\ SubSeq(eboData.data, 13, 18) = <<2, 5, 0, 0, 5, 3>>
    /\ SubSeq(eboData.data, 31, 36) = <<5, 8, 3, 3, 8, 6>>

----------------------------------------------------------------------------
(* Properties of the render loop, checked under Spec *)

AfterCamera ==
    pc \in {"animate", "upload", "uploadLights", "drawSculpture", "drawCubes",
            "swap"}
AfterAnimate ==
    pc \in {"upload", "uploadLights", "drawSculpture", "drawCubes", "swap"}
AfterUpload == pc \in {"uploadLights", "drawSculpture", "drawCubes", "swap"}
Count(op, n) == Cardinality({j \in 1 .. n : log[j] = op})
LightIds == 0 .. NumLights - 1

\* C4: in a frame whose viewport height is 0 (for any width) the projection
\* is built with aspect exactly 1.0 and nothing is divided by the zero
\* height; for height > 0 the aspect is width/height.
C4_AspectGuardsZeroHeight ==
    AfterCamera =>
        /\ fb.h = 0 => proj = FOne
        /\ fb.h > 0 => FEq(proj, FNum(fb.w, fb.h))

\* C5: in every iteration the vertex data bound for the sculpture draw is
\* the sampler's output for that frame's g_time, not for the time at which
\* the mesh was first created.
C5_VertexDataOfCurrentTime ==
    (pc = "drawCubes" /\ drawn.done) =>
        drawn.vertices =
            VertexLoop(args.rowRings, args.colSegments, g_time, 0, 0, <<>>)

\* C7: at any frame time, light n+1 is light n advanced by a quarter turn
\* (x[n+1] = z[n] and z[n+1] = -x[n]) for n in 0..2, and every light has
\* x^2 + z^2 = R^2 with R = 1.8.
C7_LightsQuarterTurnApart ==
    AfterAnimate =>
        /\ \A n \in 0 .. NumLights - 2 :
              /\ pointLights[n + 1].x = pointLights[n].z
              /\ pointLights[n + 1].z = PairNeg(pointLights[n].x)
        /\ \A n \in LightIds :
              PairAdd(PairSq(pointLights[n].x), PairSq(pointLights[n].z))
                  = <<LightRadius * LightRadius, 0>>

C7_Witness ==
    /\ pc = "upload"
    /\ g_time = 1
    /\ pointLights[0].x = <<9, 0>>
    /\ pointLights[0].z = <<0, 9>>
    /\ pointLights[1].x = <<0, 9>>
    /\ pointLights[1].z = <<-9, 0>>

\* C9: an iteration reads the time source once, at its start, and derives
\* camera view, the four light positions and the model rotation from that
\* value; all four lights are animated before any uniform upload; the
\* positions uploaded are those the markers are placed with; the sculpture
\* draw and the marker draws precede the swap; the static initial
\* pointLights are never passed to a draw.
C9_FrameDerivedFromOneTimeRead ==
    /\ log # <<>> => (log[1] = "time" /\ Count("time", Len(log)) = 1)
    /\ AfterCamera => view = [set |-> TRUE, t |-> g_time]
    /\ AfterAnimate =>
          \A n \in LightIds :
              /\ pointLights[n].y = [k |-> "wave", c |-> 10, t |-> g_time,
                                     n |-> n]
              /\ pointLights[n].x
                    = Scale(LightRadius, Sin2(g_time + n * QuarterTurn))
              /\ pointLights[n].z
                    = Scale(LightRadius, Cos2(g_time + n * QuarterTurn))
    /\ AfterUpload =>
          /\ uniforms.uView = [set |-> TRUE, t |-> g_time]
          /\ uniforms.uViewPos = [set |-> TRUE, t |-> g_time]
          /\ uniforms.uModel = [set |-> TRUE, t |-> g_time]
    /\ \A j \in 1 .. Len(log) :
          log[j] \in {"upload", "uploadLight", "drawSculpture", "drawCube"}
              => Count("animate", j - 1) = NumLights
    /\ \A n \in LightIds :
          (pc = "swap" \/ (pc = "drawCubes" /\ n < i))
              => (markers[n] = uniforms.lights[n]
                  /\ markers[n] = pointLights[n])
    /\ \A j \in 1 .. Len(log) :
          log[j] = "swap" =>
              /\ j = Len(log)
              /\ Count("drawSculpture", j - 1) = 1
              /\ Count("drawCube", j - 1) = NumLights
    /\ \A n \in LightIds :
          /\ uniforms.lights[n] # InitialPointLights[n]
          /\ markers[n] # InitialPointLights[n]
          /\ uniforms.lights[n].y.k = "const" => uniforms.lights[n] = NoPos
          /\ markers[n].y.k = "const" => markers[n] = NoPos

C9_Witness ==
    /\ pc = "loop"
    /\ Len(log) = 17
    /\ log[17] = "swap"
    /\ g_time = 2
    /\ clock = 3
    /\ view.t = 2
    /\ \A n \in LightIds : markers[n].y.t = 2

====
